---- MODULE Spec2Model ----
(***************************************************************************)
(* Model of the time tracker's entity store (class Store of src/main.py)   *)
(* and of the operations that call it.                                     *)
(*                                                                         *)
(* Time is counted in units of 1/Res second since 00:00:00 of day 0, so a  *)
(* clock read (datetime.now()) can fall between two whole seconds.         *)
(* A stored timestamp is the TEXT the code wrote: the record               *)
(* [kind, t] is the ISO string of instant t written with the separator     *)
(* 'T' (kind "T") or ' ' (kind "S"); kind "bad" is a string that           *)
(* datetime.fromisoformat rejects, kind "empty" is '' and kind "null" is   *)
(* SQL NULL / Python None.  Names, tasks and notes are sequences of        *)
(* one-character strings.  An optional integer is <<>> (NULL) or <<n>>.    *)
(* A row id of 0 stands for None (SQLite's rowids start at 1).             *)
(*                                                                         *)
(* The variables of TimeTrackerApp: running_id, the rows of the table      *)
(* (tree, the ids in display order), the texts of the filter fields and    *)
(* the open EditDialogs in the order they were opened (dialogs): the entry *)
(* each one edits and whether __init__ got as far as building its fields   *)
(* and buttons; the states of the Start and Stop buttons (start_btn,       *)
(* stop_btn) and whether the main window exists (root; main ends when      *)
(* TimeTrackerApp.__init__ raises).                                        *)
(***************************************************************************)
EXTENDS Integers, Sequences, FiniteSets, TLC

VARIABLES projects, entries, clock, last, edits,
          running_id, tree, from_entry, to_entry, filter_project_cb, dialogs,
          start_btn, stop_btn, root

store == <<projects, entries>>
buttons == <<start_btn, stop_btn>>
gui == <<running_id, tree, from_entry, to_entry, filter_project_cb, dialogs,
         start_btn, stop_btn, root>>
vars == <<projects, entries, clock, last, edits,
          running_id, tree, from_entry, to_entry, filter_project_cb, dialogs,
          start_btn, stop_btn, root>>

(***************************************************************************)
(* Bounds of the model.                                                    *)
(***************************************************************************)
MaxId == 2
MaxTicks == 4
MaxEdits == 1
MaxDialogs == 2
MaxHours == 100
MaxFields == 4

(***************************************************************************)
(* Program constants.                                                      *)
(***************************************************************************)
Res == 2
SecondsPerDay == 86400
DayUnits == SecondsPerDay * Res
ClockStart == DayUnits - Res
ClockMax == ClockStart + MaxTicks

(***************************************************************************)
(* Timestamp texts.                                                        *)
(***************************************************************************)
NULL == [kind |-> "null", t |-> 0]
EMPTY == [kind |-> "empty", t |-> 0]
BAD == [kind |-> "bad", t |-> 0]
Iso(sep, t) == [kind |-> sep, t |-> t]
None == <<>>
Some(v) == <<v>>

\* Python truthiness of an Optional[str]: None and '' are false
Truthy(x) == x.kind \notin {"null", "empty"}

\* datetime.fromisoformat accepts the text (any single separator character)
Parseable(x) == x.kind \in {"T", "S"}

\* datetime.fromisoformat of a parseable text
fromisoformat(x) == x.t

\* datetime.isoformat(timespec="seconds"): the fraction of a second is dropped
isoformat_seconds(t) == Iso("T", (t \div Res) * Res)

\* datetime.isoformat(): the full instant, 'T' separator
isoformat(t) == Iso("T", t)

\* int(timedelta.total_seconds()): truncation toward zero
int_seconds(d) == IF d >= 0 THEN d \div Res ELSE -((-d) \div Res)

\* datetime.combine(d, datetime.min.time()) and datetime.combine(d, datetime.max.time());
\* 23:59:59.999999 is the last instant of the day on the clock's grid
start_of_day(d) == d * DayUnits
end_of_day(d) == d * DayUnits + DayUnits - 1

\* date.today()
today(now) == now \div DayUnits

(***************************************************************************)
(* SQLite compares TEXT values bytewise: '' sorts first, then the ISO      *)
(* strings by date, then by separator (' ' < 'T'), then by time of day,    *)
(* then the strings starting with a letter.                                *)
(***************************************************************************)
TextKey(x) ==
    CASE x.kind = "empty" -> <<0, 0, 0, 0>>
      [] x.kind = "S" -> <<1, x.t \div DayUnits, 0, x.t % DayUnits>>
      [] x.kind = "T" -> <<1, x.t \div DayUnits, 1, x.t % DayUnits>>
      [] x.kind = "bad" -> <<2, 0, 0, 0>>

KeyLT(a, b) ==
    \/ a[1] < b[1]
    \/ a[1] = b[1] /\ a[2] < b[2]
    \/ a[1] = b[1] /\ a[2] = b[2] /\ a[3] < b[3]
    \/ a[1] = b[1] /\ a[2] = b[2] /\ a[3] = b[3] /\ a[4] < b[4]

TextLT(x, y) == KeyLT(TextKey(x), TextKey(y))
TextLE(x, y) == x = y \/ TextLT(x, y)

(***************************************************************************)
(* str.strip()                                                             *)
(***************************************************************************)
RECURSIVE lstrip(_)
lstrip(s) == IF s # <<>> /\ Head(s) = " " THEN lstrip(Tail(s)) ELSE s

RECURSIVE rstrip(_)
rstrip(s) == IF s # <<>> /\ s[Len(s)] = " " THEN rstrip(SubSeq(s, 1, Len(s) - 1)) ELSE s

strip(s) == rstrip(lstrip(s))

(***************************************************************************)
(* pretty_duration.  A string is the sequence of its characters.           *)
(***************************************************************************)
DigitChars == <<"0", "1", "2", "3", "4", "5", "6", "7", "8", "9">>

\* str(n) of an integer n >= 0
RECURSIVE str_int(_)
str_int(n) ==
    IF n < 10 THEN <<DigitChars[n + 1]>> ELSE str_int(n \div 10) \o <<DigitChars[(n % 10) + 1]>>

\* the format specification 02d for n >= 0: zero-padded to two characters or more
format_02d(n) == IF n < 10 THEN <<"0">> \o str_int(n) ELSE str_int(n)

\* pretty_duration that formats the absolute value and leaves out the sign
pretty_duration_unsigned(seconds) ==
    LET secs == IF seconds < 0 THEN -seconds ELSE seconds
    IN  format_02d(secs \div 3600) \o <<":">> \o format_02d((secs % 3600) \div 60)
        \o <<":">> \o format_02d((secs % 3600) % 60)

\* pretty_duration
pretty_duration(seconds) ==
    LET neg == seconds < 0
        secs == IF seconds < 0 THEN -seconds ELSE seconds
        h == secs \div 3600
        rem == secs % 3600
        m == rem \div 60
        s == rem % 60
        sign == IF neg THEN <<"-">> ELSE <<>>
    IN  sign \o format_02d(h) \o <<":">> \o format_02d(m) \o <<":">> \o format_02d(s)

(***************************************************************************)
(* parse_hhmm                                                              *)
(***************************************************************************)
\* the number a string of decimal digits denotes
DigitValue(c) == CHOOSE d \in 0..9 : DigitChars[d + 1] = c

RECURSIVE NumberOf(_)
NumberOf(str) ==
    IF str = <<>>
    THEN 0
    ELSE NumberOf(SubSeq(str, 1, Len(str) - 1)) * 10 + DigitValue(str[Len(str)])

IsDigits(str) == \A k \in DOMAIN str : \E d \in 0..9 : DigitChars[d + 1] = str[k]

\* str.split(":")
RECURSIVE split(_)
split(str) ==
    IF \A k \in DOMAIN str : str[k] # ":"
    THEN <<str>>
    ELSE LET k == CHOOSE j \in DOMAIN str : str[j] = ":" /\ \A i \in 1..(j - 1) : str[i] # ":"
         IN  <<SubSeq(str, 1, k - 1)>> \o split(SubSeq(str, k + 1, Len(str)))

NotUnderscore(c) == c # "_"

\* int(text): Some(value), or None when int raises ValueError.  int accepts
\* surrounding whitespace, one sign, and digits with single underscores between
int_of(text) ==
    LET t == strip(text)
        signed == t # <<>> /\ t[1] \in {"+", "-"}
        body == IF signed THEN Tail(t) ELSE t
        ok == /\ body # <<>>
              /\ IsDigits(SelectSeq(body, NotUnderscore))
              /\ body[1] # "_"
              /\ body[Len(body)] # "_"
              /\ \A k \in 1..(Len(body) - 1) : ~(body[k] = "_" /\ body[k + 1] = "_")
        value == NumberOf(SelectSeq(body, NotUnderscore))
    IN  IF ok THEN Some(IF signed /\ t[1] = "-" THEN -value ELSE value) ELSE None

\* parse_hhmm that lets minutes and seconds reach 60
parse_hhmm_upto60(value) ==
    LET parts == split(strip(value))
        h == int_of(parts[1])
        m == int_of(parts[2])
        s == IF Len(parts) = 3 THEN int_of(parts[3]) ELSE Some(0)
    IN  IF Len(parts) \notin {2, 3}
        THEN None
        ELSE IF h = None \/ m = None \/ s = None
        THEN None
        ELSE IF ~(0 <= m[1] /\ m[1] <= 60 /\ 0 <= s[1] /\ s[1] <= 60)
        THEN None
        ELSE Some(h[1] * 3600 + m[1] * 60 + s[1])

\* parse_hhmm; a ValueError of int is caught and gives None
parse_hhmm(value) ==
    LET parts == split(strip(value))
        h == int_of(parts[1])
        m == int_of(parts[2])
        s == IF Len(parts) = 3 THEN int_of(parts[3]) ELSE Some(0)
    IN  IF Len(parts) \notin {2, 3}
        THEN None
        ELSE IF h = None \/ m = None \/ s = None
        THEN None
        ELSE IF ~(0 <= m[1] /\ m[1] < 60 /\ 0 <= s[1] /\ s[1] < 60)
        THEN None
        ELSE Some(h[1] * 3600 + m[1] * 60 + s[1])

(***************************************************************************)
(* Tables.  A table is a function from rowid to row; an INTEGER PRIMARY    *)
(* KEY without AUTOINCREMENT gets the largest rowid in use plus one.       *)
(***************************************************************************)
MaxOf(S) == CHOOSE m \in S : \A x \in S : x <= m

NextRowid(tbl) == IF DOMAIN tbl = {} THEN 1 ELSE MaxOf(DOMAIN tbl) + 1

OpenIds(E) == {i \in DOMAIN E : E[i].end_ts = NULL}

\* upsert_project looking the name up without regard to letter case
lower(s) == [k \in DOMAIN s |-> IF s[k] = "P" THEN "p" ELSE s[k]]

upsert_project_nocase(P, name) ==
    LET n == strip(name)
        found == {p \in DOMAIN P : lower(P[p]) = lower(n)}
    IN  IF n = <<>>
        THEN [projects |-> P, res |-> "ValueError", id |-> 0]
        ELSE IF found # {}
        THEN [projects |-> P, res |-> "ok", id |-> CHOOSE p \in found : TRUE]
        ELSE [projects |-> P @@ (NextRowid(P) :> n), res |-> "ok", id |-> NextRowid(P)]

\* Store.upsert_project
upsert_project(P, name) ==
    LET n == strip(name)
        found == {p \in DOMAIN P : P[p] = n}
    IN  IF n = <<>>
        THEN [projects |-> P, res |-> "ValueError", id |-> 0]
        ELSE IF found # {}
        THEN [projects |-> P, res |-> "ok", id |-> CHOOSE p \in found : TRUE]
        ELSE [projects |-> P @@ (NextRowid(P) :> n), res |-> "ok", id |-> NextRowid(P)]

\* Store.get_running_entry: the ids the query may return ({} when it returns None);
\* rows with equal start_ts come in an order SQLite does not fix
get_running_entry(E, P) ==
    LET open == {i \in OpenIds(E) : E[i].project_id \in DOMAIN P}
    IN  {i \in open : \A j \in open : TextLE(E[j].start_ts, E[i].start_ts)}

\* stop_entry without its check of the fetched row: row[0] of None raises TypeError
stop_entry_unchecked(E, entry_id, now) ==
    IF entry_id \notin DOMAIN E
    THEN [entries |-> E, res |-> "TypeError"]
    ELSE IF ~Parseable(E[entry_id].start_ts)
    THEN [entries |-> E, res |-> "ValueError"]
    ELSE [entries |-> [E EXCEPT ![entry_id].end_ts = isoformat_seconds(now),
                                ![entry_id].duration_s =
                                    Some(int_seconds(now - fromisoformat(E[entry_id].start_ts)))],
          res |-> "ok"]

\* Store.stop_entry
stop_entry(E, entry_id, now) ==
    IF entry_id \notin DOMAIN E
    THEN [entries |-> E, res |-> "ok"]
    ELSE IF ~Parseable(E[entry_id].start_ts)
    THEN [entries |-> E, res |-> "ValueError"]
    ELSE [entries |-> [E EXCEPT ![entry_id].end_ts = isoformat_seconds(now),
                                ![entry_id].duration_s =
                                    Some(int_seconds(now - fromisoformat(E[entry_id].start_ts)))],
          res |-> "ok"]

\* Store.start_entry after its auto-stop: s is the outcome of the auto-stop and
\* now the clock read of the insert
insert_entry(E, P, s, project_name, task, notes, now) ==
    LET u == upsert_project(P, project_name)
        id == NextRowid(s.entries)
    IN  IF s.res # "ok"
        THEN [entries |-> E, projects |-> P, res |-> s.res, ret |-> 0]
        ELSE IF u.res # "ok"
        THEN [entries |-> s.entries, projects |-> P, res |-> u.res, ret |-> 0]
        ELSE [entries |-> s.entries @@ (id :> [project_id |-> u.id,
                                                task |-> strip(task),
                                                notes |-> strip(notes),
                                                start_ts |-> isoformat_seconds(now),
                                                end_ts |-> NULL,
                                                duration_s |-> None]),
              projects |-> u.projects, res |-> "ok", ret |-> id]

\* start_entry that uses the earlier clock read for the new entry's start and the
\* later one for the end of the running entry
start_entry_swaps_clock_reads(E, P, running, project_name, task, notes, now1, now2) ==
    insert_entry(E, P,
                 IF running # 0 THEN stop_entry(E, running, now2) ELSE [entries |-> E, res |-> "ok"],
                 project_name, task, notes, now1)

\* start_entry without its auto-stop of the running entry
start_entry_keeps_running(E, P, running, project_name, task, notes, now1, now2) ==
    insert_entry(E, P, [entries |-> E, res |-> "ok"], project_name, task, notes, now2)

\* Store.start_entry; running is the row get_running_entry returned (0: None),
\* now1 the clock read of the auto-stop and now2 the clock read of the insert
start_entry(E, P, running, project_name, task, notes, now1, now2) ==
    insert_entry(E, P,
                 IF running # 0 THEN stop_entry(E, running, now1) ELSE [entries |-> E, res |-> "ok"],
                 project_name, task, notes, now2)

\* a start_entry that creates the new entry first and closes the running one after:
\* the store when the process dies between the two
start_entry_dies_insert_first(E, P, running, project_name, task, notes, now1, at) ==
    LET out == insert_entry(E, P, [entries |-> E, res |-> "ok"], project_name, task, notes, now1)
    IN  [entries |-> out.entries, projects |-> out.projects]

\* Store.start_entry when the process dies between the auto-stop and the insert:
\* the store holds what was committed, the auto-stop (at = "stop_entry") or the
\* auto-stop and the project (at = "upsert_project"); the INSERT was not reached
start_entry_dies(E, P, running, project_name, task, notes, now1, at) ==
    LET s == IF running # 0 THEN stop_entry(E, running, now1) ELSE [entries |-> E, res |-> "ok"]
        u == upsert_project(P, project_name)
    IN  [entries |-> s.entries,
         projects |-> IF at = "upsert_project" /\ s.res = "ok" /\ u.res = "ok"
                      THEN u.projects ELSE P]

\* Store.delete_entry
delete_entry(E, entry_id) == [i \in DOMAIN E \ {entry_id} |-> E[i]]

\* update_entry that looks the project up and does not create it when it is absent
update_entry_no_create(E, P, entry_id, project_name, task, notes, start_ts, end_ts) ==
    LET u == upsert_project(P, project_name)
        row == [project_id |-> u.id,
                task |-> strip(task),
                notes |-> strip(notes),
                start_ts |-> start_ts,
                end_ts |-> end_ts,
                duration_s |-> IF Truthy(end_ts)
                               THEN Some(int_seconds(fromisoformat(end_ts) - fromisoformat(start_ts)))
                               ELSE None]
    IN  IF u.res # "ok"
        THEN [entries |-> E, projects |-> P, res |-> u.res]
        ELSE IF Truthy(end_ts) /\ ~(Parseable(start_ts) /\ Parseable(end_ts))
        THEN [entries |-> E, projects |-> P, res |-> "ValueError"]
        ELSE [entries |-> IF entry_id \in DOMAIN E THEN [E EXCEPT ![entry_id] = row] ELSE E,
              projects |-> P, res |-> "ok"]

\* Store.update_entry
update_entry(E, P, entry_id, project_name, task, notes, start_ts, end_ts) ==
    LET u == upsert_project(P, project_name)
        row == [project_id |-> u.id,
                task |-> strip(task),
                notes |-> strip(notes),
                start_ts |-> start_ts,
                end_ts |-> end_ts,
                duration_s |-> IF Truthy(end_ts)
                               THEN Some(int_seconds(fromisoformat(end_ts) - fromisoformat(start_ts)))
                               ELSE None]
    IN  IF u.res # "ok"
        THEN [entries |-> E, projects |-> P, res |-> u.res]
        ELSE IF Truthy(end_ts) /\ ~(Parseable(start_ts) /\ Parseable(end_ts))
        THEN [entries |-> E, projects |-> u.projects, res |-> "ValueError"]
        ELSE [entries |-> IF entry_id \in DOMAIN E THEN [E EXCEPT ![entry_id] = row] ELSE E,
              projects |-> u.projects, res |-> "ok"]

\* the rows of the WHERE clause of Store.query_entries; project <<>> is None or ''
query_rows(E, P, start_date, end_date, project) ==
    {i \in DOMAIN E :
        /\ E[i].project_id \in DOMAIN P
        /\ TextLE(isoformat(start_of_day(start_date)), E[i].start_ts)
        /\ TextLE(E[i].start_ts, isoformat(end_of_day(end_date)))
        /\ project # <<>> => P[E[i].project_id] = project}

\* ORDER BY e.start_ts DESC: every listing of the rows in which no row comes
\* before a row with a larger start_ts (equal keys come in any order)
order_by_start_desc(E, rows) ==
    {q \in [1..Cardinality(rows) -> rows] :
        /\ \A a, b \in DOMAIN q : a # b => q[a] # q[b]
        /\ \A a, b \in DOMAIN q : a < b => ~TextLT(E[q[a]].start_ts, E[q[b]].start_ts)}

\* Store.query_entries: the lists of row ids the query may return
query_entries(E, P, start_date, end_date, project) ==
    order_by_start_desc(E, query_rows(E, P, start_date, end_date, project))

\* the rows of the WHERE clause of Store.sum_today for the day d
sum_today_rows(E, d) ==
    {i \in DOMAIN E :
        /\ TextLE(E[i].start_ts, isoformat(end_of_day(d)))
        /\ (E[i].end_ts = NULL \/ TextLE(isoformat(start_of_day(d)), E[i].end_ts))}

\* the loop of Store.sum_today over the fetched rows: each row adds the whole
\* seconds of its interval clamped to the day d, when that is positive
RECURSIVE sum_rows(_, _, _, _)
sum_rows(E, rows, d, now) ==
    IF rows = {}
    THEN 0
    ELSE LET i == CHOOSE r \in rows : TRUE
             start == fromisoformat(E[i].start_ts)
             end == IF Truthy(E[i].end_ts) THEN fromisoformat(E[i].end_ts) ELSE now
             eff_start == IF start > start_of_day(d) THEN start ELSE start_of_day(d)
             eff_end == IF end < end_of_day(d) THEN end ELSE end_of_day(d)
         IN  (IF eff_end > eff_start THEN int_seconds(eff_end - eff_start) ELSE 0)
             + sum_rows(E, rows \ {i}, d, now)

\* Store.sum_today raises a ValueError: a fetched row has a start, or an end that
\* is not empty, that datetime.fromisoformat rejects
sum_today_raises(E, d) ==
    \E i \in sum_today_rows(E, d) :
        \/ ~Parseable(E[i].start_ts)
        \/ (Truthy(E[i].end_ts) /\ ~Parseable(E[i].end_ts))

\* Store.sum_today; d is the day date.today() returned and now the later clock
\* read of datetime.now()
sum_today(E, d, now) ==
    IF sum_today_raises(E, d)
    THEN [res |-> "ValueError", total |-> 0]
    ELSE [res |-> "ok", total |-> sum_rows(E, sum_today_rows(E, d), d, now)]

(***************************************************************************)
(* The texts of the date fields: the ISO date of day d, or a text that     *)
(* date.fromisoformat rejects.  The combobox text "(any)" means no filter. *)
(***************************************************************************)
DateText(d) == [kind |-> "date", d |-> d]
BADDATE == [kind |-> "bad", d |-> 0]
ANY == <<"(", "a", "n", "y", ")">>
\* the states of a button
NORMAL == "normal"
DISABLED == "disabled"

\* the time, in clock units, that may pass between two clock reads of one handler
Lags == {0, 1}

\* the answers of the save-file dialog: cancelled, a file in a directory that
\* does not exist, a file that can be written
CANCELLED == ""
NODIR == "nodir/out.csv"
OUTFILE == "out.csv"
FileAnswers == {CANCELLED, NODIR, OUTFILE}

UNTITLED == <<"(", "u", "n", "t", "i", "t", "l", "e", "d", ")">>

\* date.today().replace(day=1); the days of the model lie in one month that
\* starts on day 0
first_of_month(d) == 0

\* TimeTrackerApp._refresh_table raises on row i: it parses the timestamps of a
\* row that has a start and an end but no duration
refresh_raises(E, i) ==
    /\ E[i].duration_s = None
    /\ Truthy(E[i].start_ts)
    /\ Truthy(E[i].end_ts)
    /\ (~Parseable(E[i].start_ts) \/ ~Parseable(E[i].end_ts))

\* TimeTrackerApp._refresh_table: the contents the table may have after the call
\* (cur is its contents before), the title of the message box shown ("ok": none)
\* and whether a ValueError left the call: the table is cleared and filled row by
\* row, up to the first row whose timestamps cannot be parsed
refresh_table(E, P, from, to, filter, cur) ==
    LET project == IF strip(filter) = ANY THEN <<>> ELSE strip(filter)
        filled(q) ==
            LET bad == {k \in DOMAIN q : refresh_raises(E, q[k])}
                first == CHOOSE k \in bad : \A j \in bad : k <= j
            IN  IF bad = {}
                THEN [tree |-> q, res |-> "ok", raised |-> FALSE]
                ELSE [tree |-> SubSeq(q, 1, first - 1), res |-> "ok", raised |-> TRUE]
    IN  IF from.kind # "date" \/ to.kind # "date" \/ to.d < from.d
        THEN {[tree |-> cur, res |-> "Invalid dates", raised |-> FALSE]}
        ELSE {filled(q) : q \in query_entries(E, P, from.d, to.d, project)}

\* TimeTrackerApp._load_running: the values running_id may get
load_running(E, P) ==
    IF get_running_entry(E, P) = {} THEN {0} ELSE get_running_entry(E, P)

\* TimeTrackerApp._update_today_total raises a ValueError: in Store.sum_today, or
\* when running_id is set and the start of the row r that get_running_entry
\* returns (0: None) cannot be parsed; d is the day and now the time of the call
update_today_total_raises(E, rid, r, d, now) ==
    \/ sum_today_raises(E, d)
    \/ (rid # 0 /\ r # 0 /\ ~Parseable(E[r].start_ts))

\* Store.export_csv raises on row i: it parses the timestamps of a row that has
\* an end and a start but no duration
export_raises(E, i) ==
    /\ E[i].duration_s = None
    /\ Truthy(E[i].end_ts)
    /\ Truthy(E[i].start_ts)
    /\ (~Parseable(E[i].start_ts) \/ ~Parseable(E[i].end_ts))

\* Store.export_csv of the rows q into dest: the rows written, and whether it
\* raised; opening a file in a directory that does not exist raises
export_csv(E, q, dest) ==
    LET bad == {k \in DOMAIN q : export_raises(E, q[k])}
        first == CHOOSE k \in bad : \A j \in bad : k <= j
    IN  IF dest = NODIR
        THEN [rows |-> <<>>, res |-> "raised"]
        ELSE IF bad # {}
        THEN [rows |-> SubSeq(q, 1, first - 1), res |-> "raised"]
        ELSE [rows |-> q, res |-> "ok"]

\* TimeTrackerApp.on_export_csv: the outcomes of the export; dest is the answer
\* of the file dialog (CANCELLED: ''), rows are the ids of the rows written to the
\* file, and res is the title of the message box ("none": no message)
on_export_csv(E, P, from, to, filter, dest) ==
    LET project == IF strip(filter) = ANY THEN <<>> ELSE strip(filter)
    IN  IF from.kind # "date" \/ to.kind # "date"
        THEN {[rows |-> <<>>, res |-> "Invalid dates"]}
        ELSE {IF q = <<>>
              THEN [rows |-> <<>>, res |-> "Nothing to export"]
              ELSE IF dest = CANCELLED
              THEN [rows |-> <<>>, res |-> "none"]
              ELSE [rows |-> export_csv(E, q, dest).rows,
                    res |-> IF export_csv(E, q, dest).res = "ok"
                            THEN "Exported" ELSE "Export failed"] :
                 q \in query_entries(E, P, from.d, to.d, project)}

(***************************************************************************)
(* Inputs of the operations.                                               *)
(***************************************************************************)
ProjectNames == {<<"p">>, <<"p", " ">>, <<"P">>, <<" ">>}
TaskTexts == {<<"t", " ">>}
NoteTexts == {<<" ">>}
EntryIds == 1..(MaxId + 1)
QueryDays == 0..today(ClockMax)
ProjectFilters == {<<>>, <<"p">>, <<"P">>}
\* the texts typed into the From and To fields: ranges that begin or end on the
\* first day (in order, or inverted) and a From text that is no date
FilterRanges ==
    {<<DateText(a), DateText(b)>> : a \in QueryDays, b \in {0}}
    \cup {<<DateText(a), DateText(b)>> : a \in {0}, b \in QueryDays}
    \cup {<<BADDATE, DateText(0)>>}
FilterTexts == {ANY}
FormProjects == {<<"p", " ">>, <<" ">>}
FormStarts == {BAD, Iso("T", ClockStart)}
FormEnds == {EMPTY, BAD, Iso("T", DayUnits + Res)}
OpenOrClosed == {NULL, Iso("T", DayUnits + Res)}
EditStarts == {EMPTY, BAD, Iso("T", ClockStart), Iso("S", ClockStart + 1),
               Iso("T", DayUnits + 2 * Res)}
EditEnds == {NULL, EMPTY, BAD, Iso("T", DayUnits + Res), Iso("S", DayUnits + Res)}

\* the seconds pretty_duration is applied to
RestSeconds == {0, 1, 5, 9, 10, 59, 60, 61, 600, 3599}
Durations == {sign * (h * 3600 + r) : sign \in {-1, 1}, h \in 0..MaxHours, r \in RestSeconds}

\* the fields parse_hhmm is applied to: the text of a field and the integer it
\* stands for (None: not an integer)
Field(txt, int) == [txt |-> txt, int |-> int]
FieldTexts ==
    {Field(<<"9">>, Some(9)), Field(<<"3", "0">>, Some(30)), Field(<<"5", "9">>, Some(59)),
     Field(<<"6", "0">>, Some(60)), Field(<<"-", "1">>, Some(-1)),
     Field(<<" ", "0", "7", " ">>, Some(7)), Field(<<"1", "_", "0">>, Some(10)),
     Field(<<"x">>, None), Field(<<>>, None)}
ClockInputs == UNION {[1..n -> FieldTexts] : n \in 1..MaxFields}

\* the fields joined by colons
RECURSIVE join(_)
join(fields) ==
    IF Len(fields) = 1
    THEN fields[1].txt
    ELSE fields[1].txt \o <<":">> \o join(Tail(fields))

NoOp == [op |-> "init", id |-> 0, res |-> "ok", ret |-> <<>>, arg |-> <<>>]

Init ==
    /\ projects = <<>>
    /\ entries = <<>>
    /\ clock = ClockStart
    /\ last = NoOp
    /\ edits = 0
    /\ running_id = 0
    /\ tree = <<>>
    /\ from_entry = DateText(first_of_month(today(ClockStart)))
    /\ to_entry = DateText(today(ClockStart))
    /\ filter_project_cb = ANY
    /\ dialogs = <<>>
    /\ start_btn = NORMAL
    /\ stop_btn = DISABLED
    /\ root = TRUE

\* time passes between two operations
Tick ==
    /\ clock < ClockMax
    /\ clock' = clock + 1
    /\ last' = [op |-> "tick", id |-> 0, res |-> "ok", ret |-> <<>>, arg |-> <<>>]
    /\ UNCHANGED <<projects, entries, edits, gui>>

UpsertProject(name) ==
    LET u == upsert_project(projects, name)
    IN  /\ projects' = u.projects
        /\ last' = [op |-> "upsert_project", id |-> 0, res |-> u.res, ret |-> <<u.id>>, arg |-> <<>>]
        /\ UNCHANGED <<entries, clock, edits, gui>>

StartEntry(project_name, task, notes) ==
    LET cand == get_running_entry(entries, projects)
    IN  \E running \in (IF cand = {} THEN {0} ELSE cand) :
        \E d \in (IF running = 0 THEN {0} ELSE {0, 1}) :
            LET out == start_entry(entries, projects, running, project_name, task, notes,
                                   clock, clock + d)
            IN  /\ clock + d <= ClockMax
                /\ out.res = "ok" => out.ret <= MaxId
                /\ entries' = out.entries
                /\ projects' = out.projects
                /\ clock' = clock + d
                /\ last' = [op |-> "start_entry", id |-> running, res |-> out.res,
                            ret |-> <<out.ret>>, arg |-> <<project_name>>]
                /\ UNCHANGED <<edits, gui>>

StopEntry(entry_id) ==
    LET out == stop_entry(entries, entry_id, clock)
    IN  /\ entries' = out.entries
        /\ last' = [op |-> "stop_entry", id |-> entry_id, res |-> out.res, ret |-> <<>>, arg |-> <<>>]
        /\ UNCHANGED <<projects, clock, edits, gui>>

DeleteEntry(entry_id) ==
    /\ entries' = delete_entry(entries, entry_id)
    /\ last' = [op |-> "delete_entry", id |-> entry_id, res |-> "ok", ret |-> <<>>, arg |-> <<>>]
    /\ UNCHANGED <<projects, clock, edits, gui>>

UpdateEntry(entry_id, project_name, task, notes, start_ts, end_ts) ==
    LET out == update_entry(entries, projects, entry_id, project_name, task, notes,
                            start_ts, end_ts)
    IN  /\ edits < MaxEdits
        /\ edits' = edits + 1
        /\ entries' = out.entries
        /\ projects' = out.projects
        /\ last' = [op |-> "update_entry", id |-> entry_id, res |-> out.res, ret |-> <<>>,
                    arg |-> <<project_name>>]
        /\ UNCHANGED <<clock, gui>>

QueryEntries(start_date, end_date, project) ==
    \E rows \in query_entries(entries, projects, start_date, end_date, project) :
        /\ last' = [op |-> "query_entries", id |-> 0, res |-> "ok", ret |-> rows,
                    arg |-> <<start_date, end_date, project>>]
        /\ UNCHANGED <<projects, entries, clock, edits, gui>>

\* Store.sum_today; the clock may tick between date.today() and datetime.now()
SumToday ==
    \E d \in {0, 1} :
        LET out == sum_today(entries, today(clock), clock + d)
        IN  /\ clock + d <= ClockMax
            /\ clock' = clock + d
            /\ last' = [op |-> "sum_today", id |-> 0, res |-> out.res,
                        ret |-> IF out.res = "ok" THEN <<out.total>> ELSE <<>>,
                        arg |-> <<today(clock), clock + d>>]
            /\ UNCHANGED <<projects, entries, edits, gui>>

\* Store.get_running_entry; id is the id of the row returned (0: None)
GetRunningEntry ==
    \E r \in load_running(entries, projects) :
        /\ last' = [op |-> "get_running_entry", id |-> r, res |-> "ok", ret |-> <<>>, arg |-> <<>>]
        /\ UNCHANGED <<projects, entries, clock, edits, gui>>

Next ==
    \/ Tick
    \/ \E n \in ProjectNames : UpsertProject(n)
    \/ \E n \in ProjectNames, t \in TaskTexts, o \in NoteTexts : StartEntry(n, t, o)
    \/ \E i \in EntryIds : StopEntry(i)
    \/ \E i \in EntryIds : DeleteEntry(i)
    \/ \E i \in EntryIds, n \in ProjectNames, t \in TaskTexts, o \in NoteTexts,
          s \in EditStarts, e \in EditEnds : UpdateEntry(i, n, t, o, s, e)
    \/ \E d1 \in QueryDays, d2 \in QueryDays, p \in ProjectFilters : QueryEntries(d1, d2, p)
    \/ SumToday
    \/ GetRunningEntry

Spec == Init /\ [][Next]_vars

\* Store.start_entry interrupted: the process dies after the commit of step at
StartEntryDies(project_name, task, notes, at) ==
    LET cand == get_running_entry(entries, projects)
    IN  \E running \in (IF cand = {} THEN {0} ELSE cand) :
            LET out == start_entry_dies(entries, projects, running, project_name, task, notes,
                                        clock, at)
            IN  /\ running # 0 => stop_entry(entries, running, clock).res = "ok"
                /\ at = "upsert_project" => upsert_project(projects, project_name).res = "ok"
                /\ entries' = out.entries
                /\ projects' = out.projects
                /\ last' = [op |-> "start_entry_dies", id |-> running, res |-> "died",
                            ret |-> <<>>, arg |-> <<at>>]
                /\ UNCHANGED <<clock, edits, gui>>

\* the timer operations alone: start, stop and delete from a single caller
NextTimer ==
    \/ Tick
    \/ \E n \in ProjectNames, t \in TaskTexts, o \in NoteTexts : StartEntry(n, t, o)
    \/ \E i \in EntryIds : StopEntry(i)
    \/ \E i \in EntryIds : DeleteEntry(i)

SpecTimer == Init /\ [][NextTimer]_vars

\* the timer operations of a process that may die inside start_entry
NextCrash ==
    \/ NextTimer
    \/ \E n \in ProjectNames, t \in TaskTexts, o \in NoteTexts,
          at \in {"stop_entry", "upsert_project"} : StartEntryDies(n, t, o, at)

SpecCrash == Init /\ [][NextCrash]_vars

\* the operations that write entries: the timer operations and update_entry
NextEdit ==
    \/ NextTimer
    \/ \E i \in EntryIds, n \in FormProjects, t \in TaskTexts, o \in NoteTexts,
          s \in FormStarts, e \in OpenOrClosed : UpdateEntry(i, n, t, o, s, e)

SpecEdit == Init /\ [][NextEdit]_vars

\* a session that starts, stops and deletes entries and reads the store
NextCore ==
    \/ NextTimer
    \/ \E n \in ProjectNames : UpsertProject(n)
    \/ SumToday
    \/ GetRunningEntry

SpecCore == Init /\ [][NextCore]_vars

\* a session that stops only the entry that is open, and reads the total of today
NextStopOpen ==
    \/ Tick
    \/ \E n \in ProjectNames, t \in TaskTexts, o \in NoteTexts : StartEntry(n, t, o)
    \/ \E i \in OpenIds(entries) : StopEntry(i)
    \/ \E i \in EntryIds : DeleteEntry(i)
    \/ SumToday

SpecStopOpen == Init /\ [][NextStopOpen]_vars

(***************************************************************************)
(* The handlers of TimeTrackerApp and EditDialog.  EditDialog is not       *)
(* modal: several may be open, also on the same entry.                     *)
(***************************************************************************)
Shown == {tree[k] : k \in DOMAIN tree}

\* the outcome of a handler: res is the title of the message box or the text of
\* the error label ("ok": none), arg the exception that left the handler
Gui(op, res, ret) == [op |-> op, id |-> 0, res |-> res, ret |-> ret, arg |-> <<>>]

\* the user types into the filter fields
EditFilter(from, to, filter) ==
    /\ root
    /\ from_entry' = from
    /\ to_entry' = to
    /\ filter_project_cb' = filter
    /\ last' = Gui("edit_filter", "ok", <<>>)
    /\ UNCHANGED <<projects, entries, clock, edits, running_id, tree, dialogs, buttons, root>>

\* the Apply button: TimeTrackerApp._refresh_table
Apply ==
    /\ root
    /\ \E r \in refresh_table(entries, projects, from_entry, to_entry, filter_project_cb, tree) :
           /\ tree' = r.tree
           /\ last' = [Gui("_refresh_table", r.res, r.tree)
                          EXCEPT !.arg = IF r.raised THEN <<"ValueError">> ELSE <<>>]
    /\ UNCHANGED <<projects, entries, clock, edits, running_id,
                   from_entry, to_entry, filter_project_cb, dialogs, buttons, root>>

\* TimeTrackerApp.on_export_csv
OnExportCsv(dest) ==
    /\ root
    /\ \E x \in on_export_csv(entries, projects, from_entry, to_entry, filter_project_cb, dest) :
           last' = Gui("on_export_csv", x.res, x.rows)
    /\ UNCHANGED <<projects, entries, clock, edits, gui>>

\* TimeTrackerApp.on_start (the Start button, or Control-Return); the clock is
\* read by the auto-stop (clock), by the insert (clock + d), by date.today() of
\* sum_today in _load_running (day) and by the datetime.now() calls that follow
\* (done); _load_running sets running_id and the buttons before
\* _update_today_total, whose exception leaves the handler before _refresh_table
OnStart(project_txt, task_txt, notes_txt) ==
    LET project == strip(project_txt)
        task == IF strip(task_txt) = <<>> THEN UNTITLED ELSE strip(task_txt)
        notes == strip(notes_txt)
        cand == get_running_entry(entries, projects)
    IN  /\ root
        /\ IF project = <<>>
           THEN /\ last' = Gui("on_start", "Missing project", <<>>)
                /\ UNCHANGED <<projects, entries, clock, edits, gui>>
           ELSE \E running \in (IF cand = {} THEN {0} ELSE cand) :
                \E d \in (IF running = 0 THEN {0} ELSE {0, 1}) :
                    LET out == start_entry(entries, projects, running, project, task, notes,
                                           clock, clock + d)
                    IN  /\ out.res = "ok" => out.ret <= MaxId
                        /\ entries' = out.entries
                        /\ projects' = out.projects
                        /\ IF out.res # "ok"
                           THEN /\ clock + d <= ClockMax
                                /\ clock' = clock + d
                                /\ last' = Gui("on_start", "Cannot start", <<>>)
                                /\ UNCHANGED <<running_id, tree, buttons>>
                           ELSE \E r \in load_running(out.entries, out.projects),
                                   d2 \in Lags, d3 \in Lags :
                                LET day == clock + d + d2
                                    done == day + d3
                                IN  /\ done <= ClockMax
                                    /\ clock' = done
                                    /\ running_id' = r
                                    /\ start_btn' = IF r # 0 THEN DISABLED ELSE NORMAL
                                    /\ stop_btn' = IF r # 0 THEN NORMAL ELSE DISABLED
                                    /\ IF update_today_total_raises(out.entries, r, r,
                                                                    today(day), done)
                                       THEN /\ UNCHANGED tree
                                            /\ last' = [Gui("on_start", "ok", <<out.ret>>)
                                                           EXCEPT !.arg = <<"ValueError">>]
                                       ELSE \E t \in refresh_table(out.entries, out.projects,
                                                         from_entry, to_entry,
                                                         filter_project_cb, tree) :
                                            /\ tree' = t.tree
                                            /\ last' = [Gui("on_start", "ok", <<out.ret>>)
                                                           EXCEPT !.arg =
                                                               IF t.raised
                                                               THEN <<"ValueError">> ELSE <<>>]
                        /\ UNCHANGED <<edits, from_entry, to_entry, filter_project_cb,
                                       dialogs, root>>

\* TimeTrackerApp.on_stop (the Stop button, or Escape); the clock is read by
\* stop_entry (clock), by date.today() of sum_today in _load_running (day) and by
\* the datetime.now() calls that follow (done)
OnStop ==
    LET out == stop_entry(entries, running_id, clock)
    IN  /\ root
        /\ IF running_id = 0
           THEN /\ last' = Gui("on_stop", "ignored", <<>>)
                /\ UNCHANGED <<projects, entries, clock, edits, gui>>
           ELSE /\ entries' = out.entries
                /\ IF out.res # "ok"
                   THEN /\ running_id' = 0
                        /\ last' = Gui("on_stop", "Cannot stop", <<>>)
                        /\ UNCHANGED <<tree, clock, buttons>>
                   ELSE \E r \in load_running(out.entries, projects),
                           d2 \in Lags, d3 \in Lags :
                        LET day == clock + d2
                            done == day + d3
                        IN  /\ done <= ClockMax
                            /\ clock' = done
                            /\ running_id' = r
                            /\ start_btn' = IF r # 0 THEN DISABLED ELSE NORMAL
                            /\ stop_btn' = IF r # 0 THEN NORMAL ELSE DISABLED
                            /\ IF update_today_total_raises(out.entries, r, r,
                                                            today(day), done)
                               THEN /\ UNCHANGED tree
                                    /\ last' = [Gui("on_stop", "ok", <<>>)
                                                   EXCEPT !.arg = <<"ValueError">>]
                               ELSE \E t \in refresh_table(out.entries, projects, from_entry,
                                                            to_entry, filter_project_cb, tree) :
                                    /\ tree' = t.tree
                                    /\ last' = [Gui("on_stop", "ok", <<>>)
                                                   EXCEPT !.arg = IF t.raised
                                                                  THEN <<"ValueError">> ELSE <<>>]
                /\ UNCHANGED <<projects, edits, from_entry, to_entry,
                               filter_project_cb, dialogs, root>>

\* TimeTrackerApp.on_delete with the row sel selected and the question answered
\* yes; _update_today_total runs when _refresh_table has returned
OnDelete(sel) ==
    /\ root
    /\ sel \in Shown
    /\ entries' = delete_entry(entries, sel)
    /\ \E t \in refresh_table(entries', projects, from_entry, to_entry,
                               filter_project_cb, tree),
          r \in load_running(entries', projects) :
           /\ tree' = t.tree
           /\ last' = [Gui("on_delete", "ok", <<>>)
                          EXCEPT !.id = sel,
                                 !.arg = IF \/ t.raised
                                            \/ update_today_total_raises(entries', running_id, r,
                                                                         today(clock), clock)
                                         THEN <<"ValueError">> ELSE <<>>]
    /\ UNCHANGED <<projects, clock, edits, running_id, from_entry, to_entry,
                   filter_project_cb, dialogs, buttons, root>>

\* a sequence without its k-th element
Without(q, k) == SubSeq(q, 1, k - 1) \o SubSeq(q, k + 1, Len(q))

\* EditDialog.__init__ raises on the row i it loads: it parses the timestamps of a
\* row that has an end and no duration, or duration 0
edit_dialog_raises(E, i) ==
    /\ E[i].duration_s \in {None, Some(0)}
    /\ Truthy(E[i].end_ts)
    /\ (~Parseable(E[i].start_ts) \/ ~Parseable(E[i].end_ts))

\* TimeTrackerApp.on_edit_selected with the row sel selected: EditDialog.__init__,
\* which destroys the new dialog when the row is not found and leaves a window
\* without fields and buttons when it raises; the dialog is not modal, so another
\* one may be open already
OnEditSelected(sel) ==
    LET found == sel \in DOMAIN entries /\ entries[sel].project_id \in DOMAIN projects
        raised == found /\ edit_dialog_raises(entries, sel)
    IN  /\ root
        /\ Len(dialogs) < MaxDialogs
        /\ sel \in Shown
        /\ dialogs' = IF found
                      THEN Append(dialogs, [entry_id |-> sel, built |-> ~raised])
                      ELSE dialogs
        /\ last' = [Gui("on_edit_selected", "ok", <<>>)
                       EXCEPT !.id = sel,
                              !.arg = IF raised THEN <<"ValueError">> ELSE <<>>]
        /\ UNCHANGED <<projects, entries, clock, edits, running_id, tree, from_entry,
                       to_entry, filter_project_cb, buttons, root>>

\* the k-th open EditDialog is destroyed: its Cancel button, or its window is
\* closed
OnCancel(k) ==
    /\ root
    /\ k \in DOMAIN dialogs
    /\ dialogs' = Without(dialogs, k)
    /\ last' = [Gui("cancel", "ok", <<>>) EXCEPT !.id = dialogs[k].entry_id]
    /\ UNCHANGED <<projects, entries, clock, edits, running_id, tree, from_entry,
                   to_entry, filter_project_cb, buttons, root>>

\* EditDialog.on_save of the k-th open EditDialog; TimeTrackerApp._after_edit runs
\* inside its try, so its exception is shown in the dialog, which stays open
OnSave(k, project_txt, task_txt, notes_txt, start_txt, end_txt) ==
    LET proj == strip(project_txt)
        task == IF strip(task_txt) = <<>> THEN UNTITLED ELSE strip(task_txt)
        notes == strip(notes_txt)
        end_iso == IF end_txt = EMPTY THEN NULL ELSE end_txt
        valid == Parseable(start_txt) /\ (end_txt # EMPTY => Parseable(end_txt))
        out == IF valid
               THEN update_entry(entries, projects, dialogs[k].entry_id, proj, task, notes,
                                 start_txt, end_iso)
               ELSE [entries |-> entries, projects |-> projects, res |-> "ValueError"]
    IN  /\ root
        /\ k \in DOMAIN dialogs
        /\ dialogs[k].built
        /\ edits < MaxEdits
        /\ edits' = edits + 1
        /\ entries' = out.entries
        /\ projects' = out.projects
        /\ IF out.res # "ok"
           THEN /\ last' = [Gui("on_save", out.res, <<>>) EXCEPT !.id = dialogs[k].entry_id]
                /\ UNCHANGED <<tree, dialogs>>
           ELSE \E t \in refresh_table(out.entries, out.projects, from_entry, to_entry,
                                        filter_project_cb, tree),
                   r \in load_running(out.entries, out.projects) :
                /\ tree' = t.tree
                /\ IF \/ t.raised
                      \/ update_today_total_raises(out.entries, running_id, r,
                                                   today(clock), clock)
                   THEN /\ UNCHANGED dialogs
                        /\ last' = [Gui("on_save", "ValueError", <<>>) EXCEPT !.id = dialogs[k].entry_id]
                   ELSE /\ dialogs' = Without(dialogs, k)
                        /\ last' = [Gui("on_save", "ok", <<>>) EXCEPT !.id = dialogs[k].entry_id]
        /\ UNCHANGED <<clock, running_id, from_entry, to_entry, filter_project_cb,
                       buttons, root>>

\* an on_close that stops the running entry (Store.finalize_running_if_any)
on_close_finalizes(E, P, now) ==
    IF get_running_entry(E, P) = {}
    THEN E
    ELSE stop_entry(E, CHOOSE r \in get_running_entry(E, P) : TRUE, now).entries

\* main.on_close: the entries table after the window is closed
on_close(E, P, now) == E

\* the window, if there is one, is closed (main.on_close) and the program is
\* launched again: main and TimeTrackerApp.__init__.  The clock is read by
\* date.today() of the filter defaults (clock), of sum_today in _load_running (day1)
\* and of sum_today in the closing _tick (day2), and by the datetime.now() calls
\* that follow (done).  When _load_running, _refresh_table or _tick raises, main
\* ends and there is no window; the other variables keep what was set until then
Restart ==
    /\ entries' = on_close(entries, projects, clock)
    /\ from_entry' = DateText(first_of_month(today(clock)))
    /\ to_entry' = DateText(today(clock))
    /\ filter_project_cb' = ANY
    /\ dialogs' = <<>>
    /\ \E r \in load_running(entries', projects), d1 \in Lags, d2 \in Lags, d3 \in Lags :
           LET day1 == clock + d1
               day2 == day1 + d2
               done == day2 + d3
           IN  /\ done <= ClockMax
               /\ clock' = done
               /\ running_id' = r
               /\ start_btn' = IF r # 0 THEN DISABLED ELSE NORMAL
               /\ stop_btn' = IF r # 0 THEN NORMAL ELSE DISABLED
               /\ IF update_today_total_raises(entries', r, r, today(day1), day1)
                  THEN /\ tree' = <<>>
                       /\ root' = FALSE
                       /\ last' = [Gui("restart", "ok", <<>>) EXCEPT !.arg = <<"ValueError">>]
                  ELSE \E t \in refresh_table(entries', projects, from_entry', to_entry',
                                               filter_project_cb', <<>>) :
                       /\ tree' = t.tree
                       /\ root' = ~(\/ t.raised
                                    \/ update_today_total_raises(entries', r, r,
                                                                 today(day2), done))
                       /\ last' = [Gui("restart", "ok", <<>>)
                                      EXCEPT !.arg = IF root' THEN <<>> ELSE <<"ValueError">>]
    /\ UNCHANGED <<projects, edits>>

NextApp ==
    \/ Tick
    \/ \E x \in FilterRanges, p \in FilterTexts : EditFilter(x[1], x[2], p)
    \/ Apply
    \/ \E dest \in FileAnswers : OnExportCsv(dest)
    \/ \E n \in FormProjects, t \in TaskTexts, o \in NoteTexts : OnStart(n, t, o)
    \/ OnStop
    \/ \E i \in EntryIds : OnDelete(i)
    \/ \E i \in EntryIds : OnEditSelected(i)
    \/ \E k \in 1..MaxDialogs : OnCancel(k)
    \/ \E k \in 1..MaxDialogs, n \in FormProjects, t \in TaskTexts, o \in NoteTexts,
          s \in FormStarts, e \in FormEnds : OnSave(k, n, t, o, s, e)
    \/ Restart

SpecApp == Init /\ [][NextApp]_vars

\* a user who starts and stops the timer, closes the program and launches it again
NextSession ==
    \/ Tick
    \/ \E n \in FormProjects, t \in TaskTexts, o \in NoteTexts : OnStart(n, t, o)
    \/ OnStop
    \/ Restart

SpecSession == Init /\ [][NextSession]_vars

(***************************************************************************)
(* pretty_duration applied to a number of seconds.                         *)
(***************************************************************************)
Input(x) == [op |-> "input", id |-> 0, res |-> "ok", ret |-> <<>>, arg |-> x]

InitFormat ==
    /\ projects = <<>>
    /\ entries = <<>>
    /\ clock = ClockStart
    /\ \E seconds \in Durations : last = Input(<<seconds>>)
    /\ edits = 0
    /\ running_id = 0
    /\ tree = <<>>
    /\ from_entry = DateText(first_of_month(today(ClockStart)))
    /\ to_entry = DateText(today(ClockStart))
    /\ filter_project_cb = ANY
    /\ dialogs = <<>>
    /\ start_btn = NORMAL
    /\ stop_btn = DISABLED
    /\ root = TRUE

PrettyDuration ==
    /\ last.op = "input"
    /\ last' = [op |-> "pretty_duration", id |-> 0, res |-> "ok",
                ret |-> pretty_duration(last.arg[1]), arg |-> last.arg]
    /\ UNCHANGED <<projects, entries, clock, edits, gui>>

NextFormat == PrettyDuration

SpecFormat == InitFormat /\ [][NextFormat]_vars

(***************************************************************************)
(* parse_hhmm applied to a text.                                           *)
(***************************************************************************)
InitClock ==
    /\ projects = <<>>
    /\ entries = <<>>
    /\ clock = ClockStart
    /\ \E fields \in ClockInputs : last = Input(<<fields>>)
    /\ edits = 0
    /\ running_id = 0
    /\ tree = <<>>
    /\ from_entry = DateText(first_of_month(today(ClockStart)))
    /\ to_entry = DateText(today(ClockStart))
    /\ filter_project_cb = ANY
    /\ dialogs = <<>>
    /\ start_btn = NORMAL
    /\ stop_btn = DISABLED
    /\ root = TRUE

ParseHhmm ==
    /\ last.op = "input"
    /\ last' = [op |-> "parse_hhmm", id |-> 0, res |-> "ok",
                ret |-> parse_hhmm(join(last.arg[1])), arg |-> last.arg]
    /\ UNCHANGED <<projects, entries, clock, edits, gui>>

NextClock == ParseHhmm

SpecClock == InitClock /\ [][NextClock]_vars

(***************************************************************************)
(* Properties.                                                             *)
(***************************************************************************)
\* the parsed instant of a stored timestamp
TimeOf(x) == fromisoformat(x)

\* C1: in every reachable state at most one entry has end == null
C1_AtMostOneOpen == Cardinality(OpenIds(entries)) <= 1

\* C2: when start_entry returns after being called while entry A was the only open
\* entry, A is closed, the new entry B is open with start = now, and
\* get_running_entry returns B and only B
C2_StartClosesRunning ==
    [][(/\ last'.op = "start_entry"
        /\ last'.res = "ok"
        /\ last'.id # 0
        /\ OpenIds(entries) = {last'.id})
       => LET A == last'.id
              B == last'.ret[1]
          IN  /\ B \notin DOMAIN entries
              /\ B \in DOMAIN entries'
              /\ entries'[A].end_ts # NULL
              /\ entries'[B].end_ts = NULL
              /\ entries'[B].start_ts = isoformat_seconds(clock')
              /\ get_running_entry(entries', projects') = {B}]_vars

C2_Witness ==
    /\ last.op = "start_entry"
    /\ last.res = "ok"
    /\ last.id \in DOMAIN entries
    /\ entries[last.id].end_ts # NULL
    /\ OpenIds(entries) = {last.ret[1]}

\* C3: when entry B is started while entry A is running, the auto-closed A ends
\* where B starts and its duration is B.start - A.start, wherever the clock ticks
C3_AutoCloseEndsAtNewStart ==
    [][(/\ last'.op = "start_entry"
        /\ last'.res = "ok"
        /\ last'.id # 0)
       => LET A == entries'[last'.id]
              B == entries'[last'.ret[1]]
          IN  /\ A.end_ts = B.start_ts
              /\ A.duration_s = Some(int_seconds(TimeOf(B.start_ts) - TimeOf(A.start_ts)))]_vars

\* C4: in every reachable state every entry that has an end has
\* duration == end - start in whole seconds
C4_DurationIsEndMinusStart ==
    \A i \in DOMAIN entries :
        Truthy(entries[i].end_ts)
        => entries[i].duration_s =
               Some(int_seconds(TimeOf(entries[i].end_ts) - TimeOf(entries[i].start_ts)))

\* C5: stop_entry on an entry that is already closed raises no error and leaves the
\* store unchanged, even if the clock has advanced since the entry was closed
C5_StopClosedIsNoOp ==
    [][(/\ last'.op = "stop_entry"
        /\ last'.id \in DOMAIN entries
        /\ entries[last'.id].end_ts # NULL)
       => (last'.res = "ok" /\ entries' = entries /\ projects' = projects)]_vars

\* C6: stop_entry and delete_entry with an id that is not in the store raise no
\* error and leave the projects and entries tables unchanged
C6_MissingIdIsNoOp ==
    [][(/\ last'.op \in {"stop_entry", "delete_entry"}
        /\ last'.id \notin DOMAIN entries)
       => (last'.res = "ok" /\ entries' = entries /\ projects' = projects)]_vars

C6_Witness ==
    /\ last.op = "stop_entry"
    /\ last.id \notin DOMAIN entries
    /\ OpenIds(entries) # {}
    /\ last.res = "ok"

\* C7: whenever upsert_project, start_entry or update_entry fails with a validation
\* error, the store is exactly as it was before the call
C7_ValidationErrorLeavesStore ==
    [][(/\ last'.op \in {"upsert_project", "start_entry", "update_entry"}
        /\ last'.res = "ValueError")
       => (entries' = entries /\ projects' = projects)]_vars

\* C8: update_entry of an entry fails with a validation error whenever start is not
\* parseable (whether or not end is given) and whenever end is given and not
\* parseable, and it never writes an unparseable start or end into the store
C8_UpdateRejectsUnparseable ==
    [][\A i \in EntryIds, n \in ProjectNames, t \in TaskTexts, o \in NoteTexts,
          s \in EditStarts, e \in EditEnds :
          (/\ last'.op = "update_entry"
           /\ i \in DOMAIN entries
           /\ UpdateEntry(i, n, t, o, s, e)
           /\ (~Parseable(s) \/ (Truthy(e) /\ ~Parseable(e))))
          => /\ last'.res = "ValueError"
             /\ entries' = entries]_vars

\* C9: query_entries(d1, d2, proj) with d2 < d1 is rejected as a validation error
\* and returns no result, on every path that calls it: the direct call, the table
\* refresh and the CSV export
C9_InvertedRangeRejected ==
    /\ (last.op = "query_entries" /\ last.arg[2] < last.arg[1]) => last.res = "ValueError"
    /\ (/\ last.op \in {"_refresh_table", "on_export_csv"}
        /\ from_entry.kind = "date"
        /\ to_entry.kind = "date"
        /\ to_entry.d < from_entry.d)
       => last.res = "Invalid dates"

\* C10: for d1 <= d2 query_entries returns exactly the entries whose start lies in
\* [start of day d1, end of day d2] and whose project name equals the filter when
\* one is given, ordered by start descending
C10_QueryReturnsRange ==
    (last.op = "query_entries" /\ last.arg[1] <= last.arg[2])
    => LET q == last.ret
           want == {i \in DOMAIN entries :
                      /\ Parseable(entries[i].start_ts)
                      /\ start_of_day(last.arg[1]) <= TimeOf(entries[i].start_ts)
                      /\ TimeOf(entries[i].start_ts) <= end_of_day(last.arg[2])
                      /\ last.arg[3] # <<>>
                         => /\ entries[i].project_id \in DOMAIN projects
                            /\ projects[entries[i].project_id] = last.arg[3]}
       IN  /\ {q[k] : k \in DOMAIN q} = want
           /\ Len(q) = Cardinality(want)
           /\ \A a, b \in DOMAIN q :
                 a < b => TimeOf(entries[q[a]].start_ts) >= TimeOf(entries[q[b]].start_ts)

\* every stored start is a timestamp and every stored end is null or a timestamp
WellFormed(E) ==
    \A i \in DOMAIN E : Parseable(E[i].start_ts) /\ (E[i].end_ts = NULL \/ Parseable(E[i].end_ts))

\* the whole seconds of the part of [start, end_or_now] that lies in day d
Clamped(e, d, now) ==
    LET start == TimeOf(e.start_ts)
        end_or_now == IF e.end_ts = NULL THEN now ELSE TimeOf(e.end_ts)
        lo == IF start_of_day(d) > start THEN start_of_day(d) ELSE start
        hi == IF end_of_day(d) < end_or_now THEN end_of_day(d) ELSE end_or_now
    IN  IF hi - lo > 0 THEN (hi - lo) \div Res ELSE 0

RECURSIVE ClampedSum(_, _, _, _)
ClampedSum(E, ids, d, now) ==
    IF ids = {}
    THEN 0
    ELSE LET i == CHOOSE x \in ids : TRUE
         IN  Clamped(E[i], d, now) + ClampedSum(E, ids \ {i}, d, now)

\* C11: sum_today returns the sum, over all entries, of
\* max(0, min(end_or_now, end of today) - max(start, start of today)) in whole
\* seconds, where end_or_now is the entry's end, or the current time if it is open
C11_SumTodayIsClampedSum ==
    (last.op = "sum_today" /\ WellFormed(entries))
    => /\ last.res = "ok"
       /\ last.ret = <<ClampedSum(entries, DOMAIN entries, last.arg[1], last.arg[2])>>

\* C12: while an entry is open and nothing is written, a later sum_today call of
\* the same day returns at least what this call returned, and more when a second
\* or more has passed; for an open entry started d seconds ago today the call
\* returns at least d
C12_SumTodayGrows ==
    [][(last'.op = "sum_today" /\ OpenIds(entries) # {} /\ today(last'.arg[2]) = last'.arg[1])
       => /\ last'.res = "ok"
          /\ \A i \in OpenIds(entries) :
                 (/\ Parseable(entries[i].start_ts)
                  /\ today(TimeOf(entries[i].start_ts)) = last'.arg[1]
                  /\ TimeOf(entries[i].start_ts) <= last'.arg[2])
                 => last'.ret[1] >= (last'.arg[2] - TimeOf(entries[i].start_ts)) \div Res
          /\ \A t \in clock'..(ClockMax + Res), d \in {0, 1} :
                 (today(t) = last'.arg[1] /\ today(t + d) = last'.arg[1])
                 => LET later == sum_today(entries, today(t), t + d)
                    IN  /\ later.res = "ok"
                        /\ later.total >= last'.ret[1]
                        /\ t >= clock' + Res => later.total > last'.ret[1]]_vars

\* C13: get_running_entry returns None iff no entry has end == null; otherwise it
\* returns an open entry whose start is the latest among the open entries
C13_RunningIsLatestOpen ==
    last.op = "get_running_entry"
    => /\ last.id = 0 <=> OpenIds(entries) = {}
       /\ last.id # 0
          => /\ last.id \in OpenIds(entries)
             /\ (\A j \in OpenIds(entries) : Parseable(entries[j].start_ts))
                => \A j \in OpenIds(entries) :
                      TimeOf(entries[j].start_ts) <= TimeOf(entries[last.id].start_ts)

\* C14: upsert_project(name) with a non-blank name returns the id of the project
\* whose stored name is exactly strip(name): it adds that row only if no row has
\* the name, a repeated call returns the same id and adds nothing, and no two
\* rows share a name (names that differ in letter case have different ids)
C14_UpsertByExactName ==
    [][\A n \in ProjectNames :
          (last'.op = "upsert_project" /\ UpsertProject(n) /\ strip(n) # <<>>)
          => LET id == last'.ret[1]
                 had == {p \in DOMAIN projects : projects[p] = strip(n)}
                 again == upsert_project(projects', n)
             IN  /\ last'.res = "ok"
                 /\ id \in DOMAIN projects'
                 /\ projects'[id] = strip(n)
                 /\ had # {} => (projects' = projects /\ id \in had)
                 /\ had = {} => /\ id \notin DOMAIN projects
                                /\ DOMAIN projects' = DOMAIN projects \cup {id}
                                /\ \A p \in DOMAIN projects : projects'[p] = projects[p]
                 /\ again.id = id
                 /\ again.projects = projects'
                 /\ \A p, q \in DOMAIN projects' : projects'[p] = projects'[q] => p = q]_vars

\* both "p" and "P" are stored and the last call returned the row that existed
C14_Witness ==
    /\ last.op = "upsert_project"
    /\ last.res = "ok"
    /\ Cardinality(DOMAIN projects) = 2
    /\ \E p, q \in DOMAIN projects : projects[p] = <<"p">> /\ projects[q] = <<"P">>
    /\ last.ret = <<1>>

\* C15: the auto-stop and the insert of start_entry are committed separately, and a
\* process that dies between the two while an entry was running leaves two open
\* entries in the store
C15_CrashLeavesTwoOpen ==
    (last.op = "start_entry_dies" /\ last.id # 0) => Cardinality(OpenIds(entries)) = 2

\* C15 as amended: a process that dies between the auto-stop and the insert, in a
\* store with at most one open entry, leaves the running entry closed and no new
\* entry: no entry is open afterwards
C15_CrashLeavesNoneOpen ==
    [][(last'.op = "start_entry_dies" /\ Cardinality(OpenIds(entries)) <= 1)
       => /\ OpenIds(entries') = {}
          /\ DOMAIN entries' = DOMAIN entries
          /\ last'.id # 0 => (last'.id \in OpenIds(entries) /\ entries'[last'.id].end_ts # NULL)
          /\ \A i \in DOMAIN entries \ {last'.id} : entries'[i] = entries[i]]_vars

C15_Witness ==
    /\ last.op = "start_entry_dies"
    /\ last.id \in DOMAIN entries
    /\ entries[last.id].end_ts # NULL
    /\ OpenIds(entries) = {}

\* C16: in every reachable state every entry's project_id is the id of a row of the
\* projects table; no step removes or renames a project; start_entry and
\* update_entry leave the entry they write with the project named in the call
C16_ProjectRefsExist ==
    [][/\ \A p \in DOMAIN projects : p \in DOMAIN projects' /\ projects'[p] = projects[p]
       /\ \A i \in DOMAIN entries' : entries'[i].project_id \in DOMAIN projects'
       /\ (last'.op = "start_entry" /\ last'.res = "ok")
          => projects'[entries'[last'.ret[1]].project_id] = strip(last'.arg[1])
       /\ (last'.op = "update_entry" /\ last'.res = "ok" /\ last'.id \in DOMAIN entries)
          => projects'[entries'[last'.id].project_id] = strip(last'.arg[1])]_vars

\* update_entry moved the only entry to a project that the call created
C16_Witness ==
    /\ last.op = "update_entry"
    /\ last.res = "ok"
    /\ DOMAIN entries = {last.id}
    /\ DOMAIN projects = {1, 2}
    /\ entries[last.id].project_id = 2
    /\ entries[last.id].task = <<"t">>

\* C17: after every completed on_start, on_stop, on_delete and on_save (no
\* message, no exception) the controller's running_id is set iff the store has an
\* open entry, and then it is the id get_running_entry returns
C17_ControllerMatchesStore ==
    (/\ last.op \in {"on_start", "on_stop", "on_delete", "on_save"}
     /\ last.res = "ok"
     /\ last.arg = <<>>)
    => /\ running_id # 0 <=> OpenIds(entries) # {}
       /\ running_id # 0 => running_id \in get_running_entry(entries, projects)

\* C18: pretty_duration(s) is '-' (iff s < 0) followed by HH:MM:SS of |s|, where
\* HH = |s| div 3600 zero-padded to two digits or more, MM = (|s| mod 3600) div 60
\* and SS = |s| mod 60 have two digits; 3661 gives 01:01:01 and -5 gives -00:00:05
C18_FormatIsSignedHMS ==
    last.op = "pretty_duration"
    => LET s == last.arg[1]
           abs == IF s < 0 THEN -s ELSE s
           out == last.ret
           signed == out # <<>> /\ out[1] = "-"
           body == IF signed THEN Tail(out) ELSE out
           n == Len(body)
           HH == SubSeq(body, 1, n - 6)
           MM == SubSeq(body, n - 4, n - 3)
           SS == SubSeq(body, n - 1, n)
       IN  /\ signed <=> s < 0
           /\ n >= 8
           /\ body[n - 5] = ":" /\ body[n - 2] = ":"
           /\ IsDigits(HH) /\ IsDigits(MM) /\ IsDigits(SS)
           /\ NumberOf(HH) = abs \div 3600
           /\ Len(HH) > 2 => HH[1] # "0"
           /\ NumberOf(MM) = (abs % 3600) \div 60
           /\ NumberOf(SS) = abs % 60
           /\ s = 3661 => out = <<"0", "1", ":", "0", "1", ":", "0", "1">>
           /\ s = -5 => out = <<"-", "0", "0", ":", "0", "0", ":", "0", "5">>

\* a negative duration of a hundred hours or more has been formatted
C18_Witness ==
    /\ last.op = "pretty_duration"
    /\ last.arg[1] <= -360000
    /\ Len(last.ret) = 10
    /\ last.ret[1] = "-"

\* C19: parse_hhmm returns h*3600 + m*60 + s for a text of exactly 2 or 3
\* colon-separated integer fields (s = 0 when there are 2) with m and s in [0,60),
\* and None for every other text; it never raises
C19_ParseClock ==
    last.op = "parse_hhmm"
    => LET f == last.arg[1]
           n == Len(f)
           m == f[2].int[1]
           s == IF n = 3 THEN f[3].int[1] ELSE 0
           valid == /\ n \in {2, 3}
                    /\ \A k \in 1..n : f[k].int # None
                    /\ 0 <= m /\ m < 60
                    /\ 0 <= s /\ s < 60
       IN  /\ last.res = "ok"
           /\ last.ret = IF valid THEN Some(f[1].int[1] * 3600 + m * 60 + s) ELSE None

\* "9:30" has been parsed to 34200
C19_Witness ==
    /\ last.op = "parse_hhmm"
    /\ join(last.arg[1]) = <<"9", ":", "3", "0">>
    /\ last.ret = <<34200>>

\* C20: closing the program does not stop the running entry (its end stays null);
\* the next launch opens the window, sets running_id to that entry's id and
\* enables the Stop button (Start is disabled), and a stop made then or later
\* records the whole seconds since the entry's original start; with no running
\* entry the launch leaves running_id unset and Stop disabled
C20_RunningSurvivesRestart ==
    [][/\ last'.op = "restart"
          => /\ entries' = entries
             /\ projects' = projects
             /\ root'
             /\ OpenIds(entries) = {}
                => /\ running_id' = 0
                   /\ stop_btn' = DISABLED
                   /\ start_btn' = NORMAL
             /\ \A e \in DOMAIN entries :
                    OpenIds(entries) = {e}
                    => /\ entries'[e].end_ts = NULL
                       /\ running_id' = e
                       /\ stop_btn' = NORMAL
                       /\ start_btn' = DISABLED
                       /\ \A t \in clock..ClockMax :
                              LET out == stop_entry(entries', running_id', t)
                              IN  /\ out.res = "ok"
                                  /\ out.entries[e].duration_s =
                                         Some(int_seconds(t - TimeOf(entries[e].start_ts)))
       /\ (last'.op = "on_stop" /\ last'.res = "ok" /\ OpenIds(entries) = {running_id})
          => /\ entries'[running_id].start_ts = entries[running_id].start_ts
             /\ entries'[running_id].end_ts = isoformat_seconds(clock)
             /\ entries'[running_id].duration_s =
                    Some(int_seconds(clock - TimeOf(entries[running_id].start_ts)))]_vars

\* the program has been launched again while an entry started earlier is running
C20_Witness ==
    /\ last.op = "restart"
    /\ root
    /\ stop_btn = NORMAL
    /\ running_id # 0
    /\ OpenIds(entries) = {running_id}
    /\ TimeOf(entries[running_id].start_ts) + Res <= clock

\* C21: with start_entry, stop_entry and delete_entry alone, called one after the
\* other with any arguments from an empty store, no two entries are open at once
C21_TimerAtMostOneOpen == \A i, j \in OpenIds(entries) : i = j

\* a start_entry that failed on a blank project name, after it had closed the
\* running entry, with another entry in the table
C21_Witness ==
    /\ last.op = "start_entry"
    /\ last.res = "ValueError"
    /\ last.id \in DOMAIN entries
    /\ Cardinality(DOMAIN entries) = 2

\* C22: in every reachable state an entry's duration is null exactly when its end is
\* null, whatever start_entry, stop_entry and update_entry (also with its end
\* cleared or given as an empty text) have written
C22_DurationNullIffEndNull ==
    \A i \in DOMAIN entries :
        (entries[i].duration_s = None) <=> (entries[i].end_ts = NULL)

\* C23: with a clock that never goes back, from an empty store, with start_entry,
\* delete_entry and stop_entry of the open entry only, every closed entry has
\* start <= end and duration >= 0, and the intervals [start, end) of two distinct
\* entries (an open entry taken as [start, now)) do not overlap
C23_NoOverlap ==
    /\ \A i \in DOMAIN entries :
           entries[i].end_ts # NULL
           => /\ TimeOf(entries[i].start_ts) <= TimeOf(entries[i].end_ts)
              /\ entries[i].duration_s # None
              /\ entries[i].duration_s[1] >= 0
    /\ LET lo(i) == TimeOf(entries[i].start_ts)
           hi(i) == IF entries[i].end_ts = NULL THEN clock ELSE TimeOf(entries[i].end_ts)
           later(a, b) == IF a >= b THEN a ELSE b
           earlier(a, b) == IF a <= b THEN a ELSE b
       IN  \A i, j \in DOMAIN entries :
               i # j => ~(later(lo(i), lo(j)) < earlier(hi(i), hi(j)))

\* a closed entry of one second or more is followed by an open entry that has run
\* for a while
C23_Witness ==
    \E i, j \in DOMAIN entries :
        /\ entries[i].end_ts # NULL
        /\ entries[i].duration_s # None
        /\ entries[i].duration_s[1] >= 1
        /\ entries[j].end_ts = NULL
        /\ TimeOf(entries[j].start_ts) < clock

\* C24: with a clock that never goes back, from an empty store, with start_entry,
\* delete_entry and stop_entry on any id (open, closed or missing), sum_today
\* returns no more than the time from the start of today to now: no second is
\* counted twice
C24_SumTodayWithinElapsed ==
    last.op = "sum_today"
    => /\ last.res = "ok"
       /\ last.ret[1] * Res <= last.arg[2] - start_of_day(last.arg[1])

====
